---- MODULE Spec2Model ----
(***************************************************************************)
(* Model of kmscon's console characters (src/src/console_char.c):          *)
(*   - struct kmscon_char, a growable byte buffer (buf, size, len);         *)
(*   - struct kmscon_glyph, a reference-counted shaped glyph;               *)
(*   - struct kmscon_font, the glyph cache (hash table keyed by content).   *)
(* Return codes are written by their errno name ("OK" is 0).                *)
(***************************************************************************)
EXTENDS Integers, Sequences, FiniteSets, TLC

VARIABLES
    bufs,     \* caller-owned kmscon_char objects: buffer id -> ch or NULL
    clast,    \* the last kmscon_char_* call: operation, receiver, result
    cprev,    \* the call before it, when that was a successful append
    font,     \* the caller's struct kmscon_font *, NULL when it holds none
    ctor,     \* kmscon_font_new in progress: the font and measure_width's locals
    mem,      \* the font's hash table, the glyphs and the allocation counts
    held,     \* glyph references handed out by lookup and not yet released
    flast,    \* the last kmscon_font_* call: operation, inputs, results
    shaped,   \* per content: successful kmscon_glyph_set calls, first glyph
    frc,      \* kmscon_font_ref / kmscon_font_unref calls since font_new
    snap      \* the memory before a series of lookups of one content

cvars == <<bufs, clast, cprev>>
fvars == <<font, ctor, mem, held, flast, shaped, frc, snap>>
vars == <<bufs, clast, cprev, font, ctor, mem, held, flast, shaped, frc, snap>>

(***************************************************************************)
(* Bounds and inputs                                                       *)
(***************************************************************************)
\* maximum size of a single character (default capacity)
KMSCON_CHAR_SIZE == 6

\* longest used length a caller lets a buffer reach
MaxLen == 3

\* most kmscon_font_ref calls a caller makes on one font
MaxRetains == 1

\* most glyph references lookup's callers hold at a time
MaxHeld == 2

\* the caller's buffer variables
BufIds == {"b1", "b2"}

\* the byte strings callers pass (str, len = Len(str))
Strs == {<<>>, <<65>>, <<66, 67>>}

NULL == [null |-> TRUE]

(***************************************************************************)
(* struct kmscon_char                                                      *)
(***************************************************************************)
\* the first len bytes of the buffer: what get_u8/get_len expose
Content(ch) == SubSeq(ch.buf, 1, ch.len)

\* malloc of the struct and of the buffer; the buffer is zeroed
new_char(size, fault) ==
    LET sz == IF size = 0 THEN KMSCON_CHAR_SIZE ELSE size
    IN  IF fault
        THEN [ret |-> "ENOMEM", ch |-> NULL]
        ELSE [ret |-> "OK",
              ch  |-> [buf |-> [i \in 1..sz |-> 0], size |-> sz, len |-> 0]]

kmscon_char_new(fault) == new_char(0, fault)

\* memcpy(&buf[at], str, len) on a buffer of the given size
memcpy(buf, size, at, str, len) ==
    [i \in 1..size |-> IF i > at /\ i <= at + len THEN str[i - at] ELSE buf[i]]

\* realloc(buf, n) of a block of the given size that succeeded: the old
\* bytes are kept; set_u8 and append_u8 overwrite every byte it adds
realloc(buf, size, n) ==
    [i \in 1..n |-> IF i <= size THEN buf[i] ELSE 0]

kmscon_char_set_u8(ch, str, len, fault) ==
    IF ch = NULL THEN [ret |-> "EINVAL", ch |-> ch]
    ELSE IF ch.size < len /\ fault THEN [ret |-> "ENOMEM", ch |-> ch]
    ELSE LET size2 == IF ch.size < len THEN len ELSE ch.size
             buf2  == IF ch.size < len THEN realloc(ch.buf, ch.size, len) ELSE ch.buf
         IN  [ret |-> "OK",
              ch  |-> [buf |-> memcpy(buf2, size2, 0, str, len),
                       size |-> size2, len |-> len]]

\* an append that writes at the start of the buffer, as set does
append_u8_overwrites(ch, str, len, fault) ==
    IF ch = NULL THEN [ret |-> "EINVAL", ch |-> ch]
    ELSE IF ch.size < len /\ fault THEN [ret |-> "EINVAL", ch |-> ch]
    ELSE LET size2 == IF ch.size < len THEN len ELSE ch.size
             buf2  == IF ch.size < len THEN realloc(ch.buf, ch.size, len) ELSE ch.buf
         IN  [ret |-> "OK",
              ch  |-> [buf |-> memcpy(buf2, size2, 0, str, len),
                       size |-> size2, len |-> len]]

kmscon_char_append_u8(ch, str, len, fault) ==
    IF ch = NULL THEN [ret |-> "EINVAL", ch |-> ch]
    ELSE LET nlen == ch.len + len
         IN  IF ch.size < nlen /\ fault THEN [ret |-> "EINVAL", ch |-> ch]
             ELSE LET size2 == IF ch.size < nlen THEN nlen ELSE ch.size
                      buf2  == IF ch.size < nlen
                               THEN realloc(ch.buf, ch.size, nlen) ELSE ch.buf
                  IN  [ret |-> "OK",
                       ch  |-> [buf |-> memcpy(buf2, size2, ch.len, str, len),
                                size |-> size2, len |-> nlen]]

kmscon_char_new_u8(str, len, fault) ==
    IF len = 0 THEN kmscon_char_new(fault)
    ELSE LET n == new_char(len, fault)
         IN  IF n.ret # "OK" THEN n
             ELSE kmscon_char_set_u8(n.ch, str, len, FALSE)

\* a dup that allocates the copy and does not fill it
char_dup_unfilled(orig, fault) ==
    IF orig = NULL THEN [ret |-> "EINVAL", ch |-> NULL]
    ELSE new_char(orig.size, fault)

kmscon_char_dup(orig, fault) ==
    IF orig = NULL THEN [ret |-> "EINVAL", ch |-> NULL]
    ELSE LET n == new_char(orig.size, fault)
         IN  IF n.ret # "OK" THEN n
             ELSE kmscon_char_set_u8(n.ch, orig.buf, orig.len, FALSE)

\* a reset that leaves the length as it is
char_reset_noop(ch) == ch

kmscon_char_reset(ch) ==
    IF ch = NULL THEN ch ELSE [ch EXCEPT !.len = 0]

kmscon_char_set(ch, orig, fault) ==
    kmscon_char_set_u8(ch, orig.buf, orig.len, fault)

(***************************************************************************)
(* kmscon_char as a hash-table key                                         *)
(***************************************************************************)
\* buf[i] read through "char", which is signed on the targets kmscon builds for
SignedChar(b) == IF b >= 128 THEN b - 256 ELSE b

\* one round of val = val * 33 + c on a 32-bit guint held as two 16-bit
\* halves <<hi, lo>>, so that every intermediate value fits a signed
\* 32-bit integer
hash_step(val, c) ==
    LET lo == val[2] * 33 + c
    IN  <<(val[1] * 33 + (lo \div 65536)) % 65536, lo % 65536>>

RECURSIVE hash_loop(_, _, _)
hash_loop(ch, i, val) ==
    IF i >= ch.len THEN val
    ELSE hash_loop(ch, i + 1, hash_step(val, SignedChar(ch.buf[i + 1])))

\* DJB hash over the first len bytes, seed 5381
kmscon_char_hash(key) == hash_loop(key, 0, <<0, 5381>>)

\* an equality that compares the whole objects, capacity and all
char_equal_whole(ch1, ch2) == ch1 = ch2

\* memcmp(ch1->buf, ch2->buf, ch1->len) == 0 after the length check
kmscon_char_equal(ch1, ch2) ==
    IF ch1.len # ch2.len THEN FALSE
    ELSE \A i \in 1..ch1.len : ch1.buf[i] = ch2.buf[i]

(***************************************************************************)
(* The shaping engine (pango), as the code uses it.  ctx names the font the *)
(* context resolves "monospace" to: "mono" is an ordinary fixed-width font, *)
(* "zero" a font whose every glyph has no advance.                          *)
(***************************************************************************)
Profiles == {"mono", "zero"}

\* number of runs of line 0 of the layout of text (2 stands for "several"):
\* none for a control character, one for a printable ASCII character,
\* several for anything the font needs a fallback for
LineRuns(ctx, text) ==
    IF Len(text) = 0 THEN 0
    ELSE IF Len(text) = 1 /\ text[1] < 32 THEN 0
    ELSE IF Len(text) = 1 /\ text[1] < 128 THEN 1
    ELSE 2

\* rec.width of pango_layout_get_extents, in pango units (1024 per pixel)
ExtentWidth(ctx, text) ==
    IF ctx = "zero" \/ LineRuns(ctx, text) = 0 THEN 0
    ELSE IF text[Len(text)] % 2 = 1 THEN 10000
    ELSE 8492

\* pango_layout_get_baseline, in pango units
Baseline(ctx, text) == 12700

\* PANGO_PIXELS(d) = ((int)(d) + 512) >> 10
PANGO_PIXELS(d) == (d + 512) \div 1024

\* PANGO_PIXELS_CEIL(d) = ((int)(d) + 1023) >> 10
PANGO_PIXELS_CEIL(d) == (d + 1023) \div 1024

(***************************************************************************)
(* Memory.  A memory m is a record                                         *)
(*   glyphs : the entries <key, glyph> of font->glyphs (the hash table)     *)
(*   gheap  : the allocated struct kmscon_glyph objects, by address         *)
(*   live   : how many objects of each kind are allocated and not freed     *)
(***************************************************************************)
NoLive == [chars |-> 0, layouts |-> 0, strs |-> 0, pfonts |-> 0,
           ctx |-> 0, table |-> 0, font |-> 0]

EmptyMem == [glyphs |-> {}, gheap |-> <<>>, live |-> NoLive]

Alloc(m, kind) == [m EXCEPT !.live[kind] = @ + 1]
Free(m, kind) == [m EXCEPT !.live[kind] = @ - 1]

\* malloc returns an address no allocated glyph has
NewAddr(m) ==
    CHOOSE a \in 1..(Cardinality(DOMAIN m.gheap) + 1) : a \notin DOMAIN m.gheap

(***************************************************************************)
(* struct kmscon_glyph                                                     *)
(***************************************************************************)
\* a glyph_new that accepts an empty key
glyph_new_unchecked(m, ch, fault) ==
    IF ch = NULL THEN [ret |-> "EINVAL", m |-> m, glyph |-> 0]
    ELSE IF fault = "glyph" THEN [ret |-> "ENOMEM", m |-> m, glyph |-> 0]
    ELSE LET d == kmscon_char_dup(ch, fault = "glyph_dup")
             a == CHOOSE x \in 1..(Cardinality(DOMAIN m.gheap) + 1) :
                     x \notin DOMAIN m.gheap
         IN  IF d.ret # "OK" THEN [ret |-> d.ret, m |-> m, glyph |-> 0]
             ELSE [ret |-> "OK",
                   m |-> [m EXCEPT
                            !.live["chars"] = @ + 1,
                            !.gheap = [x \in DOMAIN m.gheap \cup {a} |->
                                IF x = a
                                THEN [ref |-> 1, ch |-> d.ch, width |-> 0,
                                      type |-> "GLYPH_NONE", ascent |-> 0]
                                ELSE m.gheap[x]]],
                   glyph |-> a]

\* a glyph_new whose glyph keeps an empty buffer instead of a copy of the key
glyph_new_keyless(m, ch, fault) ==
    IF ch = NULL \/ ch.len = 0 THEN [ret |-> "EINVAL", m |-> m, glyph |-> 0]
    ELSE IF fault = "glyph" THEN [ret |-> "ENOMEM", m |-> m, glyph |-> 0]
    ELSE LET d == kmscon_char_new(fault = "glyph_dup")
             a == NewAddr(m)
         IN  IF d.ret # "OK" THEN [ret |-> d.ret, m |-> m, glyph |-> 0]
             ELSE [ret |-> "OK",
                   m |-> [Alloc(m, "chars") EXCEPT
                            !.gheap = [x \in DOMAIN m.gheap \cup {a} |->
                                IF x = a
                                THEN [ref |-> 1, ch |-> d.ch, width |-> 0,
                                      type |-> "GLYPH_NONE", ascent |-> 0]
                                ELSE m.gheap[x]]],
                   glyph |-> a]

\* glyph_new: fault is "glyph" (malloc of the glyph fails) or "glyph_dup"
\* (kmscon_char_dup fails).  width is not initialised by the code and is not
\* read before kmscon_glyph_set or kmscon_glyph_reset writes it.
kmscon_glyph_new(m, ch, fault) ==
    IF ch = NULL \/ ch.len = 0 THEN [ret |-> "EINVAL", m |-> m, glyph |-> 0]
    ELSE IF fault = "glyph" THEN [ret |-> "ENOMEM", m |-> m, glyph |-> 0]
    ELSE LET d == kmscon_char_dup(ch, fault = "glyph_dup")
             a == NewAddr(m)
         IN  IF d.ret # "OK" THEN [ret |-> d.ret, m |-> m, glyph |-> 0]
             ELSE [ret |-> "OK",
                   m |-> [Alloc(m, "chars") EXCEPT
                            !.gheap = [x \in DOMAIN m.gheap \cup {a} |->
                                IF x = a
                                THEN [ref |-> 1, ch |-> d.ch, width |-> 0,
                                      type |-> "GLYPH_NONE", ascent |-> 0]
                                ELSE m.gheap[x]]],
                   glyph |-> a]

\* a reset that forgets the payload without releasing it
glyph_reset_leaky(m, g) ==
    [m EXCEPT !.gheap[g].type = "GLYPH_NONE", !.gheap[g].width = 0]

\* releases the payload's engine objects, then type = GLYPH_NONE, width = 0
kmscon_glyph_reset(m, g) ==
    LET t  == m.gheap[g].type
        m1 == IF t = "GLYPH_LAYOUT" THEN Free(m, "layouts")
              ELSE IF t = "GLYPH_STR" THEN Free(Free(m, "pfonts"), "strs")
              ELSE m
    IN  [m1 EXCEPT !.gheap[g].type = "GLYPH_NONE", !.gheap[g].width = 0]

\* kmscon_glyph_ref without its increment
glyph_ref_dropped(m, g) == m

kmscon_glyph_ref(m, g) == [m EXCEPT !.gheap[g].ref = @ + 1]

\* kmscon_glyph_unref without its decrement
glyph_unref_dropped(m, g) == m

kmscon_glyph_unref(m, g) ==
    IF g \notin DOMAIN m.gheap \/ m.gheap[g].ref = 0 THEN m
    ELSE IF m.gheap[g].ref - 1 # 0 THEN [m EXCEPT !.gheap[g].ref = @ - 1]
    ELSE LET m1 == kmscon_glyph_reset([m EXCEPT !.gheap[g].ref = 0], g)
             m2 == Free(m1, "chars")
         IN  [m2 EXCEPT !.gheap = [x \in DOMAIN m2.gheap \ {g} |-> m2.gheap[x]]]

\* a glyph_set that keeps the temporary layout allocated beside a copied
\* glyph string
glyph_set_keeps_layout(m, g, ctx, fault) ==
    IF fault = "layout" THEN [ret |-> "EINVAL", m |-> m]
    ELSE LET text == Content(m.gheap[g].ch)
             m1   == Alloc(m, "layouts")
             w    == PANGO_PIXELS(ExtentWidth(ctx, text))
         IN  IF LineRuns(ctx, text) # 1
             THEN LET m2 == kmscon_glyph_reset(m1, g)
                  IN  [ret |-> "OK",
                       m |-> [m2 EXCEPT !.gheap[g].type = "GLYPH_LAYOUT",
                                        !.gheap[g].width = w]]
             ELSE IF fault = "str"
                  THEN [ret |-> "ENOMEM", m |-> Free(m1, "layouts")]
                  ELSE LET m2 == kmscon_glyph_reset(Alloc(m1, "strs"), g)
                           m3 == Alloc(m2, "pfonts")
                       IN  [ret |-> "OK",
                            m |-> [m3 EXCEPT
                                     !.gheap[g].type = "GLYPH_STR",
                                     !.gheap[g].ascent =
                                         PANGO_PIXELS_CEIL(Baseline(ctx, text)),
                                     !.gheap[g].width = w]]

\* a glyph_set that reports success without attaching a description
glyph_set_skipped(m, g, ctx, fault) == [ret |-> "OK", m |-> m]

\* glyph_set: fault is "layout" (pango_layout_new returns NULL) or "str"
\* (pango_glyph_string_copy returns NULL)
kmscon_glyph_set(m, g, ctx, fault) ==
    IF fault = "layout" THEN [ret |-> "EINVAL", m |-> m]
    ELSE LET text == Content(m.gheap[g].ch)
             m1   == Alloc(m, "layouts")
             w    == PANGO_PIXELS(ExtentWidth(ctx, text))
         IN  IF LineRuns(ctx, text) # 1
             THEN LET m2 == kmscon_glyph_reset(m1, g)
                  IN  [ret |-> "OK",
                       m |-> [m2 EXCEPT !.gheap[g].type = "GLYPH_LAYOUT",
                                        !.gheap[g].width = w]]
             ELSE IF fault = "str"
                  THEN [ret |-> "ENOMEM", m |-> Free(m1, "layouts")]
                  ELSE LET m2 == kmscon_glyph_reset(Alloc(m1, "strs"), g)
                           m3 == Free(Alloc(m2, "pfonts"), "layouts")
                       IN  [ret |-> "OK",
                            m |-> [m3 EXCEPT
                                     !.gheap[g].type = "GLYPH_STR",
                                     !.gheap[g].ascent =
                                         PANGO_PIXELS_CEIL(Baseline(ctx, text)),
                                     !.gheap[g].width = w]]

(***************************************************************************)
(* font->glyphs: GHashTable with kmscon_char_hash, kmscon_char_equal and    *)
(* the destroy notifiers kmscon_char_free and kmscon_glyph_unref            *)
(***************************************************************************)
\* An entry is <key, hash, glyph>: the table computes a key's hash once, when
\* the key is inserted, and keeps it beside the key.  A lookup compares the
\* stored hash first and calls kmscon_char_equal only when it matches.
Matches(m, key) ==
    LET h == kmscon_char_hash(key)
    IN  {e \in m.glyphs : e.hash = h /\ kmscon_char_equal(e.key, key)}

\* a table lookup that finds nothing
hash_table_lookup_miss(m, key) == 0

\* the glyph stored under key, 0 (NULL) when there is none
g_hash_table_lookup(m, key) ==
    IF Matches(m, key) = {} THEN 0
    ELSE (CHOOSE e \in Matches(m, key) : TRUE).glyph

\* an insert into a table that holds one entry at most
hash_table_insert_evicts(m, ch, g) ==
    [m EXCEPT !.glyphs =
        {[key |-> ch, hash |-> kmscon_char_hash(ch), glyph |-> g]}]

\* insert: an entry with an equal key keeps its key and gets the new value;
\* the old value and the key passed in go to their destroy notifiers
g_hash_table_insert(m, ch, g) ==
    IF Matches(m, ch) = {}
    THEN [m EXCEPT !.glyphs =
            @ \cup {[key |-> ch, hash |-> kmscon_char_hash(ch), glyph |-> g]}]
    ELSE LET old == CHOOSE e \in Matches(m, ch) : TRUE
             m1  == [m EXCEPT !.glyphs = (@ \ {old}) \cup {[old EXCEPT !.glyph = g]}]
         IN  Free(kmscon_glyph_unref(m1, old.glyph), "chars")

\* removing one entry: its key goes to kmscon_char_free, its value to
\* kmscon_glyph_unref
DestroyEntry(m, e) ==
    kmscon_glyph_unref(Free([m EXCEPT !.glyphs = @ \ {e}], "chars"), e.glyph)

\* a table freed without its destroy notifiers being run
hash_table_unref_leaky(m) == Free(m, "table")

\* the last reference to the table is dropped: every entry is removed, then
\* the table is freed
RECURSIVE g_hash_table_unref(_)
g_hash_table_unref(m) ==
    IF m.glyphs = {} THEN Free(m, "table")
    ELSE g_hash_table_unref(DestroyEntry(m, CHOOSE x \in m.glyphs : TRUE))

(***************************************************************************)
(* kmscon_font_lookup                                                      *)
(***************************************************************************)
\* what may go wrong in one lookup: nothing, or one of its allocations
LookupFaults == {"none", "dup", "glyph", "glyph_dup", "layout", "str"}

\* returns ret, the memory, the glyph handed out (0 when none), and
\* whether kmscon_glyph_set ran and succeeded (set)
kmscon_font_lookup(m, ctx, key, fault) ==
    LET found == g_hash_table_lookup(m, key)
    IN  IF found # 0
        THEN [ret |-> "OK", m |-> kmscon_glyph_ref(m, found),
              glyph |-> found, set |-> FALSE]
        ELSE LET d == kmscon_char_dup(key, fault = "dup")
             IN  IF d.ret # "OK"
                 THEN [ret |-> d.ret, m |-> m, glyph |-> 0, set |-> FALSE]
                 ELSE LET m1 == Alloc(m, "chars")
                          n  == kmscon_glyph_new(m1, key, fault)
                      IN  IF n.ret # "OK"
                          THEN [ret |-> n.ret, m |-> Free(n.m, "chars"),
                                glyph |-> 0, set |-> FALSE]
                          ELSE LET s == kmscon_glyph_set(n.m, n.glyph, ctx, fault)
                               IN  IF s.ret # "OK"
                                   THEN [ret |-> s.ret,
                                         m |-> Free(kmscon_glyph_unref(s.m, n.glyph),
                                                    "chars"),
                                         glyph |-> 0, set |-> FALSE]
                                   ELSE [ret |-> "OK",
                                         m |-> kmscon_glyph_ref(
                                                 g_hash_table_insert(s.m, d.ch, n.glyph),
                                                 n.glyph),
                                         glyph |-> n.glyph, set |-> TRUE]

(***************************************************************************)
(* measure_width, one loop iteration at a time.  Its locals are a record    *)
(*   i, num, width : the loop counter, the count and the accumulator        *)
(*   ch            : the key buffer the loop rewrites for every probe       *)
(***************************************************************************)
\* for (i = 0; i < 127; ++i)
NumProbes == 127

\* Entry: kmscon_char_new(&ch), num = 0.  width is declared without an
\* initial value: garbage is what it holds when the loop first adds to it.
measure_width_enter(m, garbage, fault) ==
    LET c == kmscon_char_new(fault)
    IN  IF c.ret # "OK" THEN [ret |-> c.ret, m |-> m, loc |-> NULL]
        ELSE [ret |-> "OK", m |-> Alloc(m, "chars"),
              loc |-> [i |-> 0, num |-> 0, width |-> garbage, ch |-> c.ch]]

\* One iteration: set the key to the byte i, look it up, count and add its
\* width when that is not 0, drop the reference.  Returns the memory, the
\* locals, and whether kmscon_glyph_set ran and succeeded.
measure_width_probe(m, ctx, loc, fault) ==
    LET s == kmscon_char_set_u8(loc.ch, <<loc.i>>, 1, FALSE)
        r == kmscon_font_lookup(m, ctx, s.ch, fault)
        w == r.m.gheap[r.glyph].width
    IN  IF s.ret # "OK"
        THEN [m |-> m, loc |-> [loc EXCEPT !.i = @ + 1], set |-> FALSE, glyph |-> 0]
        ELSE IF r.ret # "OK"
        THEN [m |-> r.m, loc |-> [loc EXCEPT !.i = @ + 1, !.ch = s.ch],
              set |-> FALSE, glyph |-> 0]
        ELSE [m |-> kmscon_glyph_unref(r.m, r.glyph),
              loc |-> [i |-> loc.i + 1,
                       num |-> IF w > 0 THEN loc.num + 1 ELSE loc.num,
                       width |-> IF w > 0 THEN loc.width + w ELSE loc.width,
                       ch |-> s.ch],
              set |-> r.set, glyph |-> r.glyph]

\* After the loop: free the key; -EFAULT when nothing was counted, else
\* font->width = width / num
measure_width_leave(m, fnt, loc) ==
    LET m1 == Free(m, "chars")
    IN  IF loc.num = 0 THEN [ret |-> "EFAULT", m |-> m1, font |-> fnt]
        ELSE [ret |-> "OK", m |-> m1,
              font |-> [fnt EXCEPT !.width = loc.width \div loc.num]]

(***************************************************************************)
(* struct kmscon_font                                                      *)
(***************************************************************************)
\* what may go wrong while the font is built: nothing, malloc of the font,
\* the default font map, the context, the font description, the default
\* language, the cairo font options, the hash table, measure_width's key
FontFaults == {"none", "font", "map", "ctx", "desc", "lang", "opt", "hash", "char"}

err_free(m) == Free(m, "font")
err_ctx(m) == err_free(Free(m, "ctx"))
err_hash(m) == err_ctx(g_hash_table_unref(m))

\* kmscon_font_new up to the first probe of measure_width.  Returns ret
\* ("OK" when the loop is to run), the memory, the font being built and
\* measure_width's locals.  font->width is not initialised by malloc and is
\* read only after measure_width has stored it.
kmscon_font_new_enter(m, height, ctx, garbage, fault) ==
    LET fail(ret, mm) == [ret |-> ret, m |-> mm, font |-> NULL, loc |-> NULL]
        m1 == Alloc(m, "font")
        m2 == Alloc(m1, "ctx")
        m3 == Alloc(m2, "table")
        e  == measure_width_enter(m3, garbage, fault = "char")
    IN  IF height = 0 THEN fail("EINVAL", m)
        ELSE IF fault = "font" THEN fail("ENOMEM", m)
        ELSE IF fault \in {"map", "ctx"} THEN fail("EFAULT", err_free(m1))
        ELSE IF fault \in {"desc", "lang", "opt"} THEN fail("EFAULT", err_ctx(m2))
        ELSE IF fault = "hash" THEN fail("ENOMEM", err_ctx(m2))
        ELSE IF e.ret # "OK" THEN fail(e.ret, err_hash(e.m))
        ELSE [ret |-> "OK", m |-> e.m,
              font |-> [ref |-> 1, width |-> 0, height |-> height, ctx |-> ctx],
              loc |-> e.loc]

\* kmscon_font_new from the end of measure_width's loop on.  Returns ret,
\* the memory and the font stored in *out (NULL unless ret is OK).
kmscon_font_new_leave(m, fnt, loc) ==
    LET r == measure_width_leave(m, fnt, loc)
    IN  IF r.ret # "OK" THEN [ret |-> r.ret, m |-> err_hash(r.m), font |-> NULL]
        ELSE [ret |-> "OK", m |-> r.m, font |-> r.font]

kmscon_font_ref(fnt) ==
    IF fnt = NULL THEN fnt ELSE [fnt EXCEPT !.ref = @ + 1]

\* an unref that frees the font whatever its count is
font_unref_eager(fnt, m) ==
    IF fnt = NULL THEN [font |-> fnt, m |-> m]
    ELSE [font |-> NULL,
          m |-> Free(Free(g_hash_table_unref(m), "ctx"), "font")]

\* returns the font (NULL once it is freed) and the memory
kmscon_font_unref(fnt, m) ==
    IF fnt = NULL THEN [font |-> fnt, m |-> m]
    ELSE IF fnt.ref = 0 THEN [font |-> fnt, m |-> m]
    ELSE IF fnt.ref - 1 # 0
         THEN [font |-> [fnt EXCEPT !.ref = @ - 1], m |-> m]
    ELSE [font |-> NULL,
          m |-> Free(Free(g_hash_table_unref(m), "ctx"), "font")]

kmscon_font_get_width(fnt) == IF fnt = NULL THEN 0 ELSE fnt.width

\* a get_height that reports the width
font_get_height_width(fnt) == IF fnt = NULL THEN 0 ELSE fnt.width

kmscon_font_get_height(fnt) == IF fnt = NULL THEN 0 ELSE fnt.height

\* a draw that returns without giving up the reference lookup gave it
font_draw_keeps_ref(m, fnt, key, cr, x, y, fault) ==
    IF fnt = NULL \/ key = NULL \/ cr = NULL
    THEN [ret |-> "EINVAL", m |-> m, cmds |-> <<>>, local |-> "EINVAL",
          glyph |-> 0, set |-> FALSE]
    ELSE LET r == kmscon_font_lookup(m, fnt.ctx, key, fault)
         IN  IF r.ret # "OK"
             THEN [ret |-> r.ret, m |-> r.m, cmds |-> <<>>, local |-> r.ret,
                   glyph |-> 0, set |-> FALSE]
             ELSE LET g    == r.m.gheap[r.glyph]
                      cmds == IF g.type = "GLYPH_LAYOUT"
                              THEN << <<"cairo_move_to", x, y>>,
                                      <<"pango_cairo_update_layout">>,
                                      <<"pango_cairo_show_layout">> >>
                              ELSE IF g.type = "GLYPH_STR"
                              THEN << <<"cairo_move_to", x, y + g.ascent>>,
                                      <<"pango_cairo_show_glyph_string">> >>
                              ELSE <<>>
                      local == IF g.type \in {"GLYPH_LAYOUT", "GLYPH_STR"}
                               THEN "OK" ELSE "EFAULT"
                  IN  [ret |-> "OK", m |-> r.m,
                       cmds |-> cmds, local |-> local,
                       glyph |-> r.glyph, set |-> r.set]

(***************************************************************************)
(* kmscon_font_draw                                                        *)
(***************************************************************************)
\* the part of kmscon_font_draw that follows a successful lookup: the switch
\* on glyph->type, kmscon_glyph_unref and the return statement.  Returns the
\* value returned, the memory, the cairo/pango calls issued on cr (cmds) and
\* the local ret at the return statement (local).
font_draw_switch(m, g, x, y) ==
    LET gl    == m.gheap[g]
        cmds  == IF gl.type = "GLYPH_LAYOUT"
                 THEN << <<"cairo_move_to", x, y>>,
                         <<"pango_cairo_update_layout">>,
                         <<"pango_cairo_show_layout">> >>
                 ELSE IF gl.type = "GLYPH_STR"
                 THEN << <<"cairo_move_to", x, y + gl.ascent>>,
                         <<"pango_cairo_show_glyph_string">> >>
                 ELSE <<>>
        local == IF gl.type \in {"GLYPH_LAYOUT", "GLYPH_STR"}
                 THEN "OK" ELSE "EFAULT"
    IN  [ret |-> "OK", m |-> kmscon_glyph_unref(m, g),
         cmds |-> cmds, local |-> local]

\* returns what font_draw_switch returns, and what the lookup reported
kmscon_font_draw(m, fnt, key, cr, x, y, fault) ==
    IF fnt = NULL \/ key = NULL \/ cr = NULL
    THEN [ret |-> "EINVAL", m |-> m, cmds |-> <<>>, local |-> "EINVAL",
          glyph |-> 0, set |-> FALSE]
    ELSE LET r == kmscon_font_lookup(m, fnt.ctx, key, fault)
         IN  IF r.ret # "OK"
             THEN [ret |-> r.ret, m |-> r.m, cmds |-> <<>>, local |-> r.ret,
                   glyph |-> 0, set |-> FALSE]
             ELSE LET d == font_draw_switch(r.m, r.glyph, x, y)
                  IN  [ret |-> d.ret, m |-> d.m,
                       cmds |-> d.cmds, local |-> d.local,
                       glyph |-> r.glyph, set |-> r.set]

(***************************************************************************)
(* The caller of the kmscon_char API: one action per function              *)
(***************************************************************************)
NoCall == [op |-> "none", b |-> "b1", ret |-> "OK", oom |-> FALSE,
           pre |-> NULL, base |-> <<>>, str |-> <<>>]

NoPrev == [on |-> FALSE, made |-> FALSE, reset |-> FALSE,
           base |-> <<>>, str |-> <<>>]

\* a call record: the receiver's variable b, and oom, which says that the
\* call's malloc or realloc was attempted and failed. What a call's effect
\* is stated relative to is kept with it: for a call whose allocation
\* failed, the receiver before the call (pre); for a successful append, the
\* content before the call (base); for a successful new_u8, set or append,
\* the bytes passed (str)
Call(op, b, ret, oom, pre, str) ==
    LET app == op = "append" /\ ret = "OK"
        wr  == op \in {"new_u8", "set", "append"} /\ ret = "OK"
    IN  [op |-> op, b |-> b, ret |-> ret,
         oom |-> oom,
         pre |-> IF oom THEN pre ELSE NULL,
         base |-> IF app THEN Content(pre) ELSE <<>>,
         str |-> IF wr THEN str ELSE <<>>]

\* cprev remembers the call before the last one where a pair of calls is of
\* interest: a successful append followed by a successful append to the same
\* buffer (on), a successful new_u8 followed by a successful dup of the
\* buffer it made (made), a reset of a buffer followed by a successful set
\* or append to it (reset)
Record(call) ==
    /\ UNCHANGED fvars
    /\ clast' = call
    /\ cprev' = IF /\ clast.op = "append" /\ clast.ret = "OK"
                   /\ call.op = "append" /\ call.ret = "OK" /\ call.b = clast.b
                THEN [NoPrev EXCEPT !.on = TRUE, !.base = clast.base,
                                    !.str = clast.str]
                ELSE IF /\ clast.op = "new_u8" /\ clast.ret = "OK"
                        /\ call.op = "dup" /\ call.ret = "OK"
                        /\ BufIds \ {call.b} = {clast.b}
                THEN [NoPrev EXCEPT !.made = TRUE, !.str = clast.str]
                ELSE IF /\ clast.op = "reset" /\ clast.ret = "OK"
                        /\ call.op \in {"set", "append"} /\ call.ret = "OK"
                        /\ call.b = clast.b
                THEN [NoPrev EXCEPT !.reset = TRUE]
                ELSE NoPrev

\* the call needs a larger block than the receiver has
Grows(ch, n) == ch # NULL /\ ch.size < n

\* the outcomes of the allocator, where the call allocates at all
Faults(allocates) == IF allocates THEN BOOLEAN ELSE {FALSE}

CharNew(b) ==
    /\ bufs[b] = NULL
    /\ \E fault \in BOOLEAN :
          LET r == kmscon_char_new(fault)
          IN  /\ bufs' = [bufs EXCEPT ![b] = r.ch]
              /\ Record(Call("new", b, r.ret, fault, NULL, <<>>))

CharNewU8(b) ==
    /\ bufs[b] = NULL
    /\ \E str \in Strs, fault \in BOOLEAN :
          /\ Len(str) <= MaxLen
          /\ LET r == kmscon_char_new_u8(str, Len(str), fault)
             IN  /\ bufs' = [bufs EXCEPT ![b] = r.ch]
                 /\ Record(Call("new_u8", b, r.ret, fault, NULL, str))

CharDup(b) ==
    /\ bufs[b] = NULL
    /\ \E o \in BufIds \ {b} : \E fault \in Faults(bufs[o] # NULL) :
          /\ LET r == kmscon_char_dup(bufs[o], fault)
             IN  /\ bufs' = [bufs EXCEPT ![b] = r.ch]
                 /\ Record(Call("dup", b, r.ret, fault, NULL, <<>>))

CharFree(b) ==
    /\ bufs[b] # NULL
    /\ bufs' = [bufs EXCEPT ![b] = NULL]
    /\ Record(Call("free", b, "OK", FALSE, NULL, <<>>))

CharReset(b) ==
    /\ bufs' = [bufs EXCEPT ![b] = kmscon_char_reset(bufs[b])]
    /\ Record(Call("reset", b, "OK", FALSE, NULL, <<>>))

CharSetU8(b) ==
    \E str \in Strs : \E fault \in Faults(Grows(bufs[b], Len(str))) :
        /\ Len(str) <= MaxLen
        /\ LET r == kmscon_char_set_u8(bufs[b], str, Len(str), fault)
           IN  /\ bufs' = [bufs EXCEPT ![b] = r.ch]
               /\ Record(Call("set", b, r.ret, fault, bufs[b], str))

CharSet(b) ==
    \E o \in {x \in BufIds : bufs[x] # NULL} :
      \E fault \in Faults(Grows(bufs[b], bufs[o].len)) :
        /\ LET r == kmscon_char_set(bufs[b], bufs[o], fault)
           IN  /\ bufs' = [bufs EXCEPT ![b] = r.ch]
               /\ Record(Call("set", b, r.ret, fault, bufs[b], Content(bufs[o])))

CharAppendU8(b) ==
    \E str \in Strs :
      \E fault \in Faults(bufs[b] # NULL /\ Grows(bufs[b], bufs[b].len + Len(str))) :
        /\ bufs[b] # NULL => bufs[b].len + Len(str) <= MaxLen
        /\ LET r == kmscon_char_append_u8(bufs[b], str, Len(str), fault)
           IN  /\ bufs' = [bufs EXCEPT ![b] = r.ch]
               /\ Record(Call("append", b, r.ret, fault, bufs[b], str))

(***************************************************************************)
(* The callers of the kmscon_font API                                      *)
(***************************************************************************)
\* the heights asked for
Heights == {0, 16, 24}

\* what measure_width's uninitialised width may hold (unsigned int)
Garbage == {0, 1000}

\* the probes whose lookup may meet an allocation failure
FaultProbes == {65}

\* key buffers callers pass to draw and lookup: "A" in an exact-fit buffer
\* and in a default-size one with a stale byte behind it, U+00E9 likewise,
\* a tab, and an empty buffer (reset, with a stale byte)
KeyIds == {"A1", "A6", "E2", "E6", "T1", "Z1"}

KeyBuf(k) ==
    CASE k = "A1" -> [buf |-> <<65>>, size |-> 1, len |-> 1]
      [] k = "A6" -> [buf |-> <<65, 66, 0, 0, 0, 0>>, size |-> 6, len |-> 1]
      [] k = "E2" -> [buf |-> <<195, 169>>, size |-> 2, len |-> 2]
      [] k = "E6" -> [buf |-> <<195, 169, 66, 0, 0, 0>>, size |-> 6, len |-> 2]
      [] k = "T1" -> [buf |-> <<9>>, size |-> 1, len |-> 1]
      [] k = "Z1" -> [buf |-> <<65>>, size |-> 1, len |-> 0]

KeyContent(k) == Content(KeyBuf(k))

\* the drawing target and position passed to draw
Cr == [cairo |-> TRUE]
Pos == <<3, 5>>

NoFCall == [op |-> "none", ret |-> "OK", key |-> "none", glyph |-> 0,
            fault |-> "none", set |-> FALSE, retry |-> FALSE, cmds |-> <<>>,
            local |-> "OK", height |-> 0, ran |-> FALSE, num |-> 0, ins |-> 0,
            was |-> 0, ctx |-> "none"]

NoSnap == [on |-> FALSE, key |-> "none", mem |-> EmptyMem, hit |-> FALSE,
           n |-> 0, glyph |-> 0, keys |-> {}, closed |-> FALSE]

NoHeld == <<>>

HeldCount(g) == IF g \in DOMAIN held THEN held[g] ELSE 0

RECURSIVE SumHeld(_)
SumHeld(S) ==
    IF S = {} THEN 0
    ELSE LET g == CHOOSE x \in S : TRUE IN held[g] + SumHeld(S \ {g})

HeldPlus(g) ==
    [x \in DOMAIN held \cup {g} |-> IF x = g THEN HeldCount(g) + 1 ELSE held[x]]

HeldMinus(g) ==
    IF held[g] = 1 THEN [x \in DOMAIN held \ {g} |-> held[x]]
    ELSE [held EXCEPT ![g] = @ - 1]

\* the allocation failures a call on key may meet: none when the key's
\* content is resident, since a hit allocates nothing
FaultsFor(key) ==
    IF g_hash_table_lookup(mem, key) # 0 THEN {"none"} ELSE LookupFaults

\* the previous call was a lookup or draw of the same content that failed
Retry(k) ==
    /\ flast.op \in {"lookup", "draw"}
    /\ flast.ret # "OK"
    /\ KeyContent(flast.key) = KeyContent(k)

\* shaped after a call on content c whose kmscon_glyph_set succeeded (set)
Shaped(c, set, g) ==
    IF ~set THEN shaped
    ELSE [x \in DOMAIN shaped \cup {c} |->
            IF x # c THEN shaped[x]
            ELSE IF c \in DOMAIN shaped
                 THEN [shaped[c] EXCEPT !.n = @ + 1]
                 ELSE [n |-> 1, glyph |-> g]]

\* kmscon_font_new is called: everything before measure_width's loop
FontNew ==
    /\ font = NULL
    /\ ctor = NULL
    /\ DOMAIN mem.gheap = {}
    /\ \E height \in Heights, ctx \in Profiles, garbage \in Garbage,
          fault \in FontFaults :
          \E r \in {kmscon_font_new_enter(mem, height, ctx, garbage, fault)} :
              /\ mem' = r.m
              /\ ctor' = IF r.ret = "OK" THEN [font |-> r.font, loc |-> r.loc]
                         ELSE NULL
              /\ flast' = [NoFCall EXCEPT
                             !.op = "font_new",
                             !.ret = IF r.ret = "OK" THEN "running" ELSE r.ret,
                             !.height = height]
              /\ frc' = [retains |-> 0, releases |-> 0, height |-> height]
    /\ shaped' = <<>>
    /\ snap' = NoSnap
    /\ UNCHANGED <<font, held, cvars>>

\* one iteration of measure_width's loop
MeasureProbe ==
    /\ ctor # NULL
    /\ ctor.loc.i < NumProbes
    /\ \E fault \in (IF ctor.loc.i \in FaultProbes THEN LookupFaults ELSE {"none"}) :
          \E r \in {measure_width_probe(mem, ctor.font.ctx, ctor.loc, fault)} :
              /\ mem' = r.m
              /\ ctor' = [ctor EXCEPT !.loc = r.loc]
              /\ shaped' = Shaped(<<ctor.loc.i>>, r.set, r.glyph)
    /\ UNCHANGED <<font, held, flast, frc, snap, cvars>>

\* the loop is over: the rest of measure_width and of kmscon_font_new
MeasureDone ==
    /\ ctor # NULL
    /\ ctor.loc.i = NumProbes
    /\ \E r \in {kmscon_font_new_leave(mem, ctor.font, ctor.loc)} :
           /\ mem' = r.m
           /\ font' = r.font
           /\ shaped' = IF r.ret = "OK" THEN shaped ELSE <<>>
           /\ flast' = [flast EXCEPT !.ret = r.ret, !.ran = TRUE,
                           !.num = ctor.loc.num,
                           !.ins = Cardinality(mem.glyphs)]
    /\ ctor' = NULL
    /\ UNCHANGED <<held, frc, snap, cvars>>

FontRef ==
    /\ font # NULL
    /\ frc.retains < MaxRetains
    /\ font' = kmscon_font_ref(font)
    /\ frc' = [frc EXCEPT !.retains = @ + 1]
    /\ flast' = [NoFCall EXCEPT !.op = "font_ref"]
    /\ snap' = NoSnap
    /\ UNCHANGED <<ctor, mem, held, shaped, cvars>>

FontUnref ==
    /\ font # NULL
    /\ \E r \in {kmscon_font_unref(font, mem)} :
           /\ font' = r.font
           /\ mem' = r.m
           /\ shaped' = IF r.font = NULL THEN <<>> ELSE shaped
    /\ frc' = [frc EXCEPT !.releases = @ + 1]
    /\ flast' = [NoFCall EXCEPT !.op = "font_unref", !.was = font.ref]
    /\ snap' = NoSnap
    /\ UNCHANGED <<ctor, held, cvars>>

Draw(k) ==
    /\ font # NULL
    /\ \E fault \in FaultsFor(KeyBuf(k)) :
          \E r \in {kmscon_font_draw(mem, font, KeyBuf(k), Cr, Pos[1], Pos[2], fault)} :
              /\ mem' = r.m
              /\ shaped' = Shaped(KeyContent(k), r.set, r.glyph)
              /\ flast' = [NoFCall EXCEPT !.op = "draw", !.ret = r.ret, !.key = k,
                              !.glyph = r.glyph, !.set = r.set,
                              !.fault = IF r.ret = "OK" THEN "none" ELSE fault,
                              !.retry = Retry(k), !.cmds = r.cmds,
                              !.local = r.local]
    /\ snap' = NoSnap
    /\ UNCHANGED <<font, ctor, held, frc, cvars>>

\* a caller inside console_char.c takes a glyph reference with lookup
Lookup(k) ==
    /\ font # NULL
    /\ SumHeld(DOMAIN held) < MaxHeld
    /\ \E fault \in FaultsFor(KeyBuf(k)) :
          \E r \in {kmscon_font_lookup(mem, font.ctx, KeyBuf(k), fault)},
             c \in {KeyContent(k)} :
              /\ mem' = r.m
              /\ held' = IF r.ret = "OK" THEN HeldPlus(r.glyph) ELSE held
              /\ shaped' = Shaped(c, r.set, r.glyph)
              /\ flast' = [NoFCall EXCEPT !.op = "lookup", !.ret = r.ret, !.key = k,
                              !.glyph = r.glyph, !.set = r.set,
                              !.fault = IF r.ret = "OK" THEN "none" ELSE fault,
                              !.retry = Retry(k)]
              /\ snap' = IF r.ret # "OK" THEN NoSnap
                         ELSE IF held = NoHeld
                         THEN [on |-> TRUE, key |-> k, mem |-> mem,
                               hit |-> ~r.set, n |-> 1, glyph |-> r.glyph,
                               keys |-> {k}, closed |-> FALSE]
                         ELSE IF snap.on /\ ~snap.closed /\ KeyContent(snap.key) = c
                         THEN [snap EXCEPT !.n = @ + 1, !.keys = @ \cup {k}]
                         ELSE NoSnap
    /\ UNCHANGED <<font, ctor, frc, cvars>>

\* and gives it back with kmscon_glyph_unref
Release(g) ==
    /\ g \in DOMAIN held
    /\ mem' = kmscon_glyph_unref(mem, g)
    /\ held' = HeldMinus(g)
    /\ flast' = [NoFCall EXCEPT !.op = "glyph_unref"]
    /\ snap' = IF snap.on THEN [snap EXCEPT !.closed = TRUE] ELSE snap
    /\ UNCHANGED <<font, ctor, shaped, frc, cvars>>

\* the glyphs allocated at a time, and the references to one glyph
MaxGlyphs == 1
MaxRefs == 2

\* console_char.c's static glyph functions, each applied on its own to the
\* glyph objects in memory: what may go wrong in kmscon_glyph_new and in
\* kmscon_glyph_set
NewFaults == {"none", "glyph", "glyph_dup"}
SetFaults == {"none", "layout", "str"}

GlyphNew(k) ==
    /\ Cardinality(DOMAIN mem.gheap) < MaxGlyphs
    /\ \E fault \in NewFaults :
          \E r \in {kmscon_glyph_new(mem, KeyBuf(k), fault)} :
              /\ mem' = r.m
              /\ flast' = [NoFCall EXCEPT !.op = "glyph_new", !.ret = r.ret,
                              !.key = k, !.glyph = r.glyph,
                              !.fault = IF r.ret = "OK" THEN "none" ELSE fault]
    /\ UNCHANGED <<font, ctor, held, shaped, frc, snap, cvars>>

GlyphSet(g) ==
    /\ \E ctx \in Profiles, fault \in SetFaults :
          \E r \in {kmscon_glyph_set(mem, g, ctx, fault)} :
              /\ mem' = r.m
              /\ flast' = [NoFCall EXCEPT !.op = "glyph_set", !.ret = r.ret,
                              !.glyph = g, !.set = (r.ret = "OK"), !.ctx = ctx,
                              !.fault = IF r.ret = "OK" THEN "none" ELSE fault]
    /\ UNCHANGED <<font, ctor, held, shaped, frc, snap, cvars>>

GlyphReset(g) ==
    /\ mem' = kmscon_glyph_reset(mem, g)
    /\ flast' = [NoFCall EXCEPT !.op = "glyph_reset", !.glyph = g]
    /\ UNCHANGED <<font, ctor, held, shaped, frc, snap, cvars>>

GlyphRef(g) ==
    /\ mem.gheap[g].ref < MaxRefs
    /\ mem' = kmscon_glyph_ref(mem, g)
    /\ flast' = [NoFCall EXCEPT !.op = "glyph_ref", !.glyph = g]
    /\ UNCHANGED <<font, ctor, held, shaped, frc, snap, cvars>>

GlyphUnref(g) ==
    /\ mem' = kmscon_glyph_unref(mem, g)
    /\ flast' = [NoFCall EXCEPT !.op = "glyph_unref", !.glyph = g]
    /\ UNCHANGED <<font, ctor, held, shaped, frc, snap, cvars>>

\* kmscon_font_draw from its switch on, entered with glyph g
GlyphDraw(g) ==
    /\ \E r \in {font_draw_switch(mem, g, Pos[1], Pos[2])} :
          /\ mem' = r.m
          /\ flast' = [NoFCall EXCEPT !.op = "draw_switch", !.ret = r.ret,
                          !.glyph = g, !.cmds = r.cmds, !.local = r.local]
    /\ UNCHANGED <<font, ctor, held, shaped, frc, snap, cvars>>

\* the buffer its owner passes to draw as the key, and changes between draws
KeyOwner == "b1"

\* the entries draws with the caller's buffer may add to the table
MaxKeys == 1

\* once the font is built, the owner of buffer b makes it from a string
\* that is not empty, frees it and rewrites it
KeyNewU8(b) ==
    /\ font # NULL
    /\ bufs[b] = NULL
    /\ \E str \in Strs \ {<<>>}, fault \in BOOLEAN :
          bufs' = [bufs EXCEPT ![b] = kmscon_char_new_u8(str, Len(str), fault).ch]
    /\ UNCHANGED <<clast, cprev, fvars>>

KeyFree(b) ==
    /\ bufs[b] # NULL
    /\ bufs' = [bufs EXCEPT ![b] = NULL]
    /\ UNCHANGED <<clast, cprev, fvars>>

KeyReset(b) ==
    /\ bufs[b] # NULL
    /\ bufs' = [bufs EXCEPT ![b] = kmscon_char_reset(bufs[b])]
    /\ UNCHANGED <<clast, cprev, fvars>>

KeySetU8(b) ==
    /\ bufs[b] # NULL
    /\ \E str \in Strs : \E fault \in Faults(Grows(bufs[b], Len(str))) :
          bufs' = [bufs EXCEPT ![b] =
                      kmscon_char_set_u8(bufs[b], str, Len(str), fault).ch]
    /\ UNCHANGED <<clast, cprev, fvars>>

KeyAppendU8(b) ==
    /\ bufs[b] # NULL
    /\ \E str \in Strs :
          \E fault \in Faults(Grows(bufs[b], bufs[b].len + Len(str))) :
              /\ bufs[b].len + Len(str) <= MaxLen
              /\ bufs' = [bufs EXCEPT ![b] =
                     kmscon_char_append_u8(bufs[b], str, Len(str), fault).ch]
    /\ UNCHANGED <<clast, cprev, fvars>>

\* kmscon_font_draw with the caller's buffer b as the key
KeyDraw(b) ==
    /\ font # NULL
    /\ bufs[b] # NULL
    /\ \/ g_hash_table_lookup(mem, bufs[b]) # 0
       \/ Cardinality(mem.glyphs) < NumProbes + MaxKeys
    /\ \E fault \in FaultsFor(bufs[b]) :
          \E r \in {kmscon_font_draw(mem, font, bufs[b], Cr, Pos[1], Pos[2], fault)} :
              /\ mem' = r.m
              /\ shaped' = Shaped(Content(bufs[b]), r.set, r.glyph)
              /\ flast' = [NoFCall EXCEPT !.op = "draw", !.ret = r.ret, !.key = b,
                              !.glyph = r.glyph, !.set = r.set,
                              !.cmds = r.cmds, !.local = r.local]
    /\ snap' = NoSnap
    /\ UNCHANGED <<font, ctor, held, frc, cvars>>

FontInit ==
    /\ font = NULL
    /\ ctor = NULL
    /\ mem = EmptyMem
    /\ held = NoHeld
    /\ flast = NoFCall
    /\ shaped = <<>>
    /\ frc = [retains |-> 0, releases |-> 0, height |-> 0]
    /\ snap = NoSnap

CharInit ==
    /\ bufs = [b \in BufIds |-> NULL]
    /\ clast = NoCall
    /\ cprev = NoPrev

Init == CharInit /\ FontInit

\* the kmscon_char API
CharNext ==
    \/ \E b \in BufIds : CharNew(b)
    \/ \E b \in BufIds : CharNewU8(b)
    \/ \E b \in BufIds : CharDup(b)
    \/ \E b \in BufIds : CharFree(b)
    \/ \E b \in BufIds : CharReset(b)
    \/ \E b \in BufIds : CharSetU8(b)
    \/ \E b \in BufIds : CharSet(b)
    \/ \E b \in BufIds : CharAppendU8(b)

\* the public kmscon_font API
Next ==
    \/ FontNew
    \/ MeasureProbe
    \/ MeasureDone
    \/ FontRef
    \/ FontUnref
    \/ \E k \in KeyIds : Draw(k)

\* a font is built and the file's own callers use kmscon_font_lookup on it
LookupNext ==
    \/ FontNew
    \/ MeasureProbe
    \/ MeasureDone
    \/ \E k \in KeyIds : Lookup(k)
    \/ \E g \in DOMAIN held : Release(g)

\* the glyph functions, on the glyphs allocated so far
GlyphNext ==
    \/ \E k \in KeyIds : GlyphNew(k)
    \/ \E g \in DOMAIN mem.gheap : GlyphSet(g)
    \/ \E g \in DOMAIN mem.gheap : GlyphReset(g)
    \/ \E g \in DOMAIN mem.gheap : GlyphRef(g)
    \/ \E g \in DOMAIN mem.gheap : GlyphUnref(g)
    \/ \E g \in DOMAIN mem.gheap : GlyphDraw(g)

\* the owner of a key buffer draws with it and changes it between draws
KeyNext ==
    \/ FontNew
    \/ MeasureProbe
    \/ MeasureDone
    \/ KeyNewU8(KeyOwner)
    \/ KeyFree(KeyOwner)
    \/ KeyReset(KeyOwner)
    \/ KeySetU8(KeyOwner)
    \/ KeyAppendU8(KeyOwner)
    \/ KeyDraw(KeyOwner)

Spec == Init /\ [][Next]_vars

SpecKey == Init /\ [][KeyNext]_vars

SpecGlyph == Init /\ [][GlyphNext]_vars

SpecLookup == Init /\ [][LookupNext]_vars

SpecChar == Init /\ [][CharNext]_vars

(***************************************************************************)
(* Properties                                                              *)
(***************************************************************************)
\* the glyphs the table holds
Resident(m) == {e.glyph : e \in m.glyphs}

\* what a memory holds allocated when nothing but a live font and its table
\* own anything: the font, its context, its table, and per entry the key,
\* the glyph's own copy of the key and the glyph's payload
Owned(m) ==
    LET of(t) == Cardinality({g \in DOMAIN m.gheap : m.gheap[g].type = t})
    IN  [chars |-> 2 * Cardinality(m.glyphs), layouts |-> of("GLYPH_LAYOUT"),
         strs |-> of("GLYPH_STR"), pfonts |-> of("GLYPH_STR"),
         ctx |-> 1, table |-> 1, font |-> 1]

\* the step is a call of kmscon_font_lookup or kmscon_font_draw
LookupStep == flast'.op \in {"lookup", "draw"} /\ <<mem, flast, held>> # <<mem', flast', held'>>

\* C1: every glyph in the table is allocated, is the value of one entry
\* only, and has a reference count of 1 (the table's reference) plus the
\* number of references lookup handed out that were not given back; every
\* reference handed out is to a glyph in the table.
ResidentRefCounts ==
    /\ \A e \in mem.glyphs :
          /\ e.glyph \in DOMAIN mem.gheap
          /\ mem.gheap[e.glyph].ref = 1 + HeldCount(e.glyph)
    /\ Cardinality(Resident(mem)) = Cardinality(mem.glyphs)
    /\ DOMAIN held \subseteq Resident(mem)

\* C1 witness: a lookup that missed has just handed out its reference while
\* a glyph found by a hit is still referenced by its caller
ResidentRefCountsSeen ==
    /\ flast.op = "lookup" /\ flast.ret = "OK" /\ flast.set
    /\ HeldCount(flast.glyph) = 1
    /\ mem.gheap[flast.glyph].ref = 2
    /\ \E g \in DOMAIN held \ {flast.glyph} : held[g] = 1 /\ mem.gheap[g].ref = 2

\* the memory after a series of lookups of one content that began with a
\* miss and whose references were all given back: the memory before the
\* series plus one entry for the content, whose glyph g only the table
\* references
OneEntryMore(before, after, g, c) ==
    /\ g \notin DOMAIN before.gheap
    /\ DOMAIN after.gheap = DOMAIN before.gheap \cup {g}
    /\ \A x \in DOMAIN before.gheap : after.gheap[x] = before.gheap[x]
    /\ after.gheap[g].ref = 1
    /\ Content(after.gheap[g].ch) = c
    /\ \E e \in after.glyphs :
          /\ e \notin before.glyphs
          /\ after.glyphs = before.glyphs \cup {e}
          /\ e.glyph = g
          /\ Content(e.key) = c
    /\ before.live = Owned(before)
    /\ after.live = Owned(after)

\* C2 as the code has it: lookups whose keys have equal content return the
\* same glyph, whose count goes up by one per call; once all these
\* references are given back the memory is what it was before the first
\* lookup when that lookup was a hit, and what it was plus the one entry the
\* first lookup inserted (count 1) when it was a miss; nothing leaks.
EqualContentSameGlyph ==
    snap.on =>
        /\ ~snap.closed =>
              /\ flast.op = "lookup" /\ flast.ret = "OK"
              /\ flast.glyph = snap.glyph
              /\ DOMAIN held = {snap.glyph}
              /\ held[snap.glyph] = snap.n
              /\ mem.gheap[snap.glyph].ref =
                    snap.n + (IF snap.hit THEN snap.mem.gheap[snap.glyph].ref ELSE 1)
        /\ held = NoHeld =>
              IF snap.hit THEN mem = snap.mem
              ELSE OneEntryMore(snap.mem, mem, snap.glyph, KeyContent(snap.key))

\* C2 witness: two key objects of equal content and different capacity were
\* looked up, the first lookup missed, and both references are given back
EqualContentSameGlyphSeen ==
    /\ snap.on /\ snap.closed /\ held = NoHeld
    /\ snap.n = 2 /\ snap.keys = {"E2", "E6"} /\ ~snap.hit

\* C2 as stated: after as many releases as lookups the cache is in its
\* pre-lookup state
EqualContentRestoresCache ==
    (snap.on /\ snap.n = 2 /\ held = NoHeld) => mem = snap.mem

\* C3: on one font the engine shapes a content successfully at most once,
\* the glyph it shaped is the one the table holds for that content, and a
\* successful lookup or draw that did not shape returns that glyph.
ShapedOnce ==
    /\ \A c \in DOMAIN shaped : shaped[c].n <= 1
    /\ DOMAIN shaped = {Content(e.key) : e \in mem.glyphs}
    /\ \A e \in mem.glyphs : shaped[Content(e.key)].glyph = e.glyph
    /\ (flast.op \in {"lookup", "draw"} /\ flast.ret = "OK") =>
          /\ KeyContent(flast.key) \in DOMAIN shaped
          /\ flast.glyph = shaped[KeyContent(flast.key)].glyph

\* C3 witness: a content that a call on this font shaped is looked up again
\* from another key object, without shaping
ShapedOnceSeen ==
    /\ flast.op = "lookup" /\ flast.ret = "OK" /\ ~flast.set
    /\ flast.key = "E6"
    /\ <<195, 169>> \in DOMAIN shaped
    /\ shaped[<<195, 169>>].n = 1

\* C4: a lookup or draw that fails leaves the memory as it was (no entry
\* more, every glyph and count as before, nothing allocated that was not
\* freed), hands out no reference, and a lookup or draw of the same content
\* right after it that succeeds has shaped the content.
FailedLookupChangesNothing ==
    [][ LookupStep =>
          /\ flast'.ret # "OK" => mem' = mem /\ held' = held /\ shaped' = shaped
          /\ (flast'.retry /\ flast'.ret = "OK") =>
                /\ flast'.set
                /\ flast'.glyph \in Resident(mem') \ Resident(mem) ]_vars

\* C4 witness: a lookup that failed while shaping is repeated and succeeds
FailedLookupRetried ==
    /\ flast.op = "lookup" /\ flast.retry /\ flast.ret = "OK" /\ flast.set
    /\ flast.glyph \in Resident(mem)

\* C5 as the code has it: a lookup or draw with an empty key fails with
\* EINVAL, or with ENOMEM when the copy of the key that precedes the
\* emptiness check cannot be allocated; the table has as many entries after
\* the call as before.
EmptyKeyFails ==
    [][ (LookupStep /\ KeyBuf(flast'.key).len = 0) =>
          /\ flast'.ret = (IF flast'.fault = "dup" THEN "ENOMEM" ELSE "EINVAL")
          /\ Cardinality(mem'.glyphs) = Cardinality(mem.glyphs)
          /\ mem' = mem ]_vars

\* C5 witness: a call with an empty key has failed because the copy of the
\* key could not be allocated
EmptyKeyFailsSeen ==
    /\ flast.op \in {"lookup", "draw"}
    /\ KeyBuf(flast.key).len = 0
    /\ flast.ret = "ENOMEM"

\* C5 as stated: an empty key fails with EINVAL
EmptyKeyInvalidArgument ==
    (flast.op \in {"lookup", "draw"} /\ KeyBuf(flast.key).len = 0)
        => flast.ret = "EINVAL"

\* the font, its context and its table are allocated and every entry's
\* glyph is allocated and referenced
FontAlive(fnt, m, rc) ==
    /\ fnt.ref = 1 + rc.retains - rc.releases
    /\ fnt.ref >= 1
    /\ m.live.font = 1 /\ m.live.ctx = 1 /\ m.live.table = 1
    /\ \A e \in m.glyphs :
          e.glyph \in DOMAIN m.gheap /\ m.gheap[e.glyph].ref >= 1

\* C6: a font's count is 1 plus its retains minus its releases; the font
\* is freed by the release that takes the count from 1 to 0, and by that
\* one only; that release leaves nothing allocated (no entry, no glyph, no
\* key, no table, no context); as long as the font is not freed, its
\* context and table stay allocated and no entry or glyph goes away.
FontFreedAtZero ==
    [][ /\ font # NULL => FontAlive(font, mem, frc)
        /\ font' # NULL => FontAlive(font', mem', frc')
        /\ (font # NULL /\ font' = NULL) =>
              /\ font.ref = 1
              /\ flast'.op = "font_unref"
              /\ frc'.releases = frc'.retains + 1
              /\ mem' = EmptyMem
        /\ (font # NULL /\ flast'.op = "font_unref" /\ font.ref = 1) => font' = NULL
        /\ (font # NULL /\ font' # NULL) =>
              /\ mem.glyphs \subseteq mem'.glyphs
              /\ DOMAIN mem.gheap \subseteq DOMAIN mem'.gheap ]_vars

\* C6 witness: a font that was retained once is freed by its second release
FontFreedAtZeroSeen ==
    /\ flast.op = "font_unref" /\ flast.was = 1
    /\ font = NULL
    /\ frc.retains = 1 /\ frc.releases = 2
    /\ mem = EmptyMem

\* the entries of the probe keys whose glyph has a width greater than 0
ProbeEntries(m) ==
    {e \in m.glyphs : /\ e.key.len = 1
                      /\ e.key.buf[1] < NumProbes
                      /\ m.gheap[e.glyph].width > 0}

RECURSIVE SumWidth(_, _)
SumWidth(m, S) ==
    IF S = {} THEN 0
    ELSE LET e == CHOOSE x \in S : TRUE
         IN  m.gheap[e.glyph].width + SumWidth(m, S \ {e})

\* C7 as stated: the width of a font is the sum of the widths of the probe
\* glyphs of non-zero width, divided by their number
WidthIsMean ==
    font # NULL =>
        /\ ProbeEntries(mem) # {}
        /\ kmscon_font_get_width(font) =
              SumWidth(mem, ProbeEntries(mem)) \div Cardinality(ProbeEntries(mem))

\* C8: when no probe has a glyph of non-zero width, kmscon_font_new returns
\* EFAULT, stores no font, and leaves nothing allocated: the table, every
\* glyph and key the probes inserted, the context and the font are freed.
NoWidthFailsCleanly ==
    (flast.op = "font_new" /\ flast.ran /\ flast.num = 0) =>
        /\ flast.ret = "EFAULT"
        /\ font = NULL /\ ctor = NULL
        /\ mem = EmptyMem

\* C8 witness: the probes inserted glyphs, none of them of non-zero width
NoWidthFailsCleanlySeen ==
    /\ flast.op = "font_new" /\ flast.ran /\ flast.num = 0
    /\ flast.ins > 0
    /\ flast.ret = "EFAULT"

\* C9 as stated: a set or an append whose realloc fails returns ENOMEM and
\* leaves the buffer as it was
ReallocFailureIsENOMEM ==
    (clast.oom /\ clast.op \in {"set", "append"}) =>
        /\ clast.ret = "ENOMEM"
        /\ bufs[clast.b] = clast.pre

\* C10: after two successful appends to a buffer in a row, of a and then
\* of b, the content is the content before the first followed by a and by
\* b, and the length is the length before plus those of a and b.
AppendAppend ==
    cprev.on =>
        /\ Content(bufs[clast.b]) = cprev.base \o cprev.str \o clast.str
        /\ bufs[clast.b].len = Len(cprev.base) + Len(cprev.str) + Len(clast.str)
        /\ bufs[clast.b].size >= bufs[clast.b].len

\* C10 witness: two non-empty appends to a non-empty buffer, the second of
\* which had to grow it
AppendAppendSeen ==
    /\ cprev.on
    /\ cprev.base # <<>> /\ cprev.str # <<>> /\ clast.str # <<>>
    /\ bufs[clast.b].size = bufs[clast.b].len

\* C11: after kmscon_char_new_u8 made a buffer from the bytes s (s may be
\* empty) and kmscon_char_dup copied it, the original and the copy both
\* hold s with length Len(s) and the copy has the original's capacity; and
\* no call changes a buffer other than its receiver, so that changing or
\* freeing one of the two leaves the other as it was.
DupOfNewU8 ==
    [][ /\ cprev'.made =>
              /\ bufs' = [bufs EXCEPT ![clast'.b] = bufs'[clast'.b]]
              /\ \A x \in BufIds :
                    /\ bufs'[x] # NULL
                    /\ Content(bufs'[x]) = cprev'.str
                    /\ bufs'[x].len = Len(cprev'.str)
                    /\ bufs'[x].size = bufs[clast.b].size
        /\ \A x \in BufIds \ {clast'.b} : bufs'[x] = bufs[x] ]_vars

\* C11 witness: a buffer made from two bytes has just been copied
DupOfNewU8Seen ==
    /\ clast.op = "dup" /\ clast.ret = "OK"
    /\ cprev.made /\ cprev.str = <<66, 67>>
    /\ \A x \in BufIds : bufs[x] # NULL /\ bufs[x].size = 2

\* C12: every buffer's length is at most its capacity, which is the size of
\* its block; no call makes the capacity of a buffer smaller; reset sets the
\* length to 0 and keeps the capacity and the block; and a successful set
\* or append right after a reset of the same buffer leaves exactly the bytes
\* passed.
LengthWithinCapacity ==
    [][ /\ \A x \in BufIds :
              bufs'[x] # NULL =>
                 /\ bufs'[x].len <= bufs'[x].size
                 /\ Len(bufs'[x].buf) = bufs'[x].size
                 /\ bufs[x] # NULL => bufs'[x].size >= bufs[x].size
        /\ (clast'.op = "reset" /\ bufs[clast'.b] # NULL) =>
              /\ bufs'[clast'.b].len = 0
              /\ bufs'[clast'.b].size = bufs[clast'.b].size
              /\ bufs'[clast'.b].buf = bufs[clast'.b].buf
        /\ cprev'.reset =>
              /\ Content(bufs'[clast'.b]) = clast'.str
              /\ bufs'[clast'.b].len = Len(clast'.str) ]_vars

\* C12 witness: a buffer of capacity 3 was reset and then appended two bytes,
\* which it holds in its old block
LengthWithinCapacitySeen ==
    /\ cprev.reset
    /\ clast.op = "append" /\ clast.str = <<66, 67>>
    /\ bufs[clast.b].size = 3
    /\ Content(bufs[clast.b]) = <<66, 67>>

\* C13 as the code has it: kmscon_font_new with height 0 returns EINVAL,
\* stores no font and allocates nothing; with a height greater than 0 it
\* returns 0 unless an allocation or an engine object fails or no probe has
\* a width (C8), and then too it leaves nothing allocated; from a
\* successful return until the font is freed kmscon_font_get_height
\* returns the height passed, whatever is drawn, retained or released.
HeightKept ==
    /\ (flast.op = "font_new" /\ flast.height = 0) =>
          /\ flast.ret = "EINVAL"
          /\ font = NULL /\ ctor = NULL
          /\ mem = EmptyMem
    /\ (flast.op = "font_new" /\ flast.ret \notin {"OK", "running"}) =>
          /\ font = NULL /\ ctor = NULL
          /\ mem = EmptyMem
    /\ (flast.op = "font_new" /\ flast.ret = "OK") =>
          font # NULL /\ flast.height > 0
    /\ font # NULL =>
          /\ frc.height > 0
          /\ kmscon_font_get_height(font) = frc.height

\* C13 witness: a font made with height 24 has drawn a character it had to
\* shape and still reports 24
HeightKeptSeen ==
    /\ font # NULL
    /\ flast.op = "draw" /\ flast.ret = "OK" /\ flast.set
    /\ frc.height = 24
    /\ kmscon_font_get_height(font) = 24

\* C13 as stated: kmscon_font_new with a height greater than 0 succeeds
PositiveHeightSucceeds ==
    (flast.op = "font_new" /\ flast.height > 0 /\ flast.ret # "running")
        => flast.ret = "OK"

\* C14: whenever a font exists and kmscon_font_new is not running, that is
\* after a successful kmscon_font_new with its measure_width pass and after
\* every draw, successful or not, every glyph of the table has a reference
\* count of exactly 1 and no glyph exists outside the table: draw and
\* measure_width have given back every reference lookup gave them.
DrawKeepsNoReference ==
    (font # NULL /\ ctor = NULL) =>
        /\ DOMAIN mem.gheap = Resident(mem)
        /\ \A g \in DOMAIN mem.gheap : mem.gheap[g].ref = 1

\* C14 witness: a draw has shaped and inserted a glyph, and has left it
\* with a count of 1
DrawKeepsNoReferenceSeen ==
    /\ font # NULL /\ ctor = NULL
    /\ flast.op = "draw" /\ flast.ret = "OK" /\ flast.set
    /\ flast.glyph \in Resident(mem)
    /\ mem.gheap[flast.glyph].ref = 1

\* C15: when the switch of kmscon_font_draw is entered with a glyph whose
\* type is GLYPH_NONE, no drawing call is issued on cr and the value
\* returned is the error (-EFAULT), not 0
UnsetDrawFails ==
    [][(/\ flast'.op = "draw_switch"
        /\ flast'.glyph \in DOMAIN mem.gheap
        /\ mem.gheap[flast'.glyph].type = "GLYPH_NONE")
       => (flast'.cmds = <<>> /\ flast'.ret = "EFAULT")]_vars

\* the variants a shaped glyph has
Described == {"GLYPH_LAYOUT", "GLYPH_STR"}

\* C16: every glyph in the table, every glyph a successful lookup returned
\* and every glyph a caller still holds has type GLYPH_LAYOUT or GLYPH_STR,
\* never GLYPH_NONE; a glyph is in the table only if kmscon_glyph_set
\* succeeded on it for the entry's content
ResidentGlyphsDescribed ==
    /\ \A e \in mem.glyphs :
          /\ e.glyph \in DOMAIN mem.gheap
          /\ mem.gheap[e.glyph].type \in Described
          /\ Content(e.key) \in DOMAIN shaped
          /\ shaped[Content(e.key)].glyph = e.glyph
    /\ \A g \in DOMAIN held :
          g \in DOMAIN mem.gheap /\ mem.gheap[g].type \in Described
    /\ (flast.op = "lookup" /\ flast.ret = "OK")
          => /\ flast.glyph \in DOMAIN mem.gheap
             /\ mem.gheap[flast.glyph].type \in Described

\* C16 witness: a lookup has just shaped and inserted a single-run glyph,
\* which the caller holds, beside a resident layout glyph
ResidentGlyphsDescribedSeen ==
    /\ flast.op = "lookup" /\ flast.ret = "OK" /\ flast.set
    /\ flast.glyph \in DOMAIN held
    /\ flast.glyph \in Resident(mem)
    /\ mem.gheap[flast.glyph].type = "GLYPH_STR"
    /\ \E e \in mem.glyphs : /\ e.glyph \in DOMAIN mem.gheap
                             /\ mem.gheap[e.glyph].type = "GLYPH_LAYOUT"

\* the engine objects the payloads of m's glyphs own: one layout per
\* GLYPH_LAYOUT glyph, one glyph string and one font per GLYPH_STR glyph
Payloads(m) ==
    LET of(t) == Cardinality({g \in DOMAIN m.gheap : m.gheap[g].type = t})
    IN  [layouts |-> of("GLYPH_LAYOUT"), strs |-> of("GLYPH_STR"),
         pfonts |-> of("GLYPH_STR")]

\* the engine objects allocated in m
LivePayloads(m) ==
    [layouts |-> m.live["layouts"], strs |-> m.live["strs"],
     pfonts |-> m.live["pfonts"]]

\* C17: a glyph starts with type GLYPH_NONE; its type changes only from
\* GLYPH_NONE to GLYPH_LAYOUT or GLYPH_STR in a successful kmscon_glyph_set
\* and from those to GLYPH_NONE in kmscon_glyph_reset; the engine objects
\* allocated are exactly one payload per described glyph, so a reset (and a
\* free) releases the payload once; a reset leaves width 0; a failed
\* kmscon_glyph_set changes nothing
GlyphStateMachine ==
    [][/\ \A g \in DOMAIN mem'.gheap \ DOMAIN mem.gheap :
             /\ flast'.op = "glyph_new"
             /\ mem'.gheap[g].type = "GLYPH_NONE"
       /\ \A g \in DOMAIN mem'.gheap \cap DOMAIN mem.gheap :
             LET t == mem.gheap[g].type
                 u == mem'.gheap[g].type
             IN  t # u =>
                   \/ /\ t = "GLYPH_NONE" /\ u \in Described
                      /\ flast'.op = "glyph_set" /\ flast'.ret = "OK"
                      /\ flast'.glyph = g
                   \/ /\ t \in Described /\ u = "GLYPH_NONE"
                      /\ flast'.op = "glyph_reset" /\ flast'.glyph = g
       /\ LivePayloads(mem') = Payloads(mem')
       /\ flast'.op = "glyph_reset" =>
             /\ mem'.gheap[flast'.glyph].type = "GLYPH_NONE"
             /\ mem'.gheap[flast'.glyph].width = 0
       /\ (flast'.op = "glyph_set" /\ flast'.ret = "OK") =>
             mem'.gheap[flast'.glyph].type \in Described
       /\ (flast'.op = "glyph_set" /\ flast'.ret # "OK") => mem' = mem
      ]_vars

\* C17 witness: a glyph that was shaped as a single run (its ascent is set)
\* has been reset, and no glyph string, font reference or layout is left
GlyphStateMachineSeen ==
    /\ flast.op = "glyph_reset"
    /\ flast.glyph \in DOMAIN mem.gheap
    /\ mem.gheap[flast.glyph].type = "GLYPH_NONE"
    /\ mem.gheap[flast.glyph].ascent > 0
    /\ mem.gheap[flast.glyph].width = 0
    /\ LivePayloads(mem) = [layouts |-> 0, strs |-> 0, pfonts |-> 0]

\* C18: a successful kmscon_glyph_set on a glyph with text t gives type
\* GLYPH_STR when line 0 of the layout of t has exactly one run and
\* GLYPH_LAYOUT otherwise; the width is the layout's extent width rounded
\* to pixels in both cases; the layout made for the call stays allocated
\* with a GLYPH_LAYOUT glyph and is released for a GLYPH_STR glyph, which
\* owns a glyph string and a font reference instead
ShapeSelectsVariant ==
    [][(flast'.op = "glyph_set" /\ flast'.ret = "OK") =>
         LET g    == flast'.glyph
             old  == mem.gheap[g]
             new  == mem'.gheap[g]
             text == Content(old.ch)
             was(t) == IF old.type = t THEN 1 ELSE 0
         IN  /\ new.type = IF LineRuns(flast'.ctx, text) = 1
                           THEN "GLYPH_STR" ELSE "GLYPH_LAYOUT"
             /\ new.width = (ExtentWidth(flast'.ctx, text) + 512) \div 1024
             /\ new.type = "GLYPH_LAYOUT" =>
                   /\ mem'.live["layouts"] =
                          mem.live["layouts"] + 1 - was("GLYPH_LAYOUT")
                   /\ mem'.live["strs"] = mem.live["strs"] - was("GLYPH_STR")
             /\ new.type = "GLYPH_STR" =>
                   /\ mem'.live["layouts"] =
                          mem.live["layouts"] - was("GLYPH_LAYOUT")
                   /\ mem'.live["strs"] =
                          mem.live["strs"] + 1 - was("GLYPH_STR")
                   /\ mem'.live["pfonts"] = mem'.live["strs"]
      ]_vars

\* C18 witness: "A" was just shaped as a single run, ten pixels wide, and
\* the layout made for it is gone
ShapeSelectsVariantSeen ==
    /\ flast.op = "glyph_set" /\ flast.ret = "OK" /\ flast.ctx = "mono"
    /\ flast.glyph \in DOMAIN mem.gheap
    /\ mem.gheap[flast.glyph].type = "GLYPH_STR"
    /\ Content(mem.gheap[flast.glyph].ch) = <<65>>
    /\ mem.gheap[flast.glyph].width = 10
    /\ LivePayloads(mem) = [layouts |-> 0, strs |-> 1, pfonts |-> 1]

\* C19: while font->glyphs exists, a step removes no entry and changes none:
\* every entry keeps its key and its glyph, whose object stays allocated,
\* whatever the lookup or draw of the step returned; no two entries have
\* keys of equal content
NeverEvicts ==
    [][(mem.live["table"] = 1 /\ mem'.live["table"] = 1) =>
         /\ mem.glyphs \subseteq mem'.glyphs
         /\ Resident(mem') \subseteq DOMAIN mem'.gheap
         /\ Cardinality({Content(e.key) : e \in mem'.glyphs})
               = Cardinality(mem'.glyphs)
         /\ Cardinality(Resident(mem')) = Cardinality(mem'.glyphs)
      ]_vars

\* C19 witness: a draw has failed for want of memory on a font whose table
\* holds the entry an earlier draw inserted besides the probes' entries
NeverEvictsSeen ==
    /\ font # NULL
    /\ flast.op = "draw" /\ flast.ret = "ENOMEM"
    /\ \E e \in mem.glyphs : Content(e.key) = <<195, 169>>
    /\ Cardinality(mem.glyphs) > 2

\* C20: whatever its owner has done to the key buffer since, every entry's
\* key has the content its glyph was shaped for and the glyph's own key has
\* the same content; the contents in the table are those shaped, each under
\* the glyph made for it; a lookup with the owner's buffer finds that glyph
\* when the buffer's content is one of them, whatever lies behind its len
\* bytes, and finds nothing otherwise
KeysAreCopies ==
    /\ \A e \in mem.glyphs :
          /\ e.glyph \in DOMAIN mem.gheap
          /\ Content(e.key) = Content(mem.gheap[e.glyph].ch)
          /\ Content(e.key) \in DOMAIN shaped
          /\ shaped[Content(e.key)].glyph = e.glyph
          /\ shaped[Content(e.key)].n = 1
    /\ Cardinality(DOMAIN shaped) = Cardinality(mem.glyphs)
    /\ \A b \in BufIds :
          bufs[b] # NULL =>
            g_hash_table_lookup(mem, bufs[b]) =
                IF Content(bufs[b]) \in DOMAIN shaped
                THEN shaped[Content(bufs[b])].glyph ELSE 0
    /\ (flast.op = "draw" /\ flast.ret = "OK") => flast.glyph \in Resident(mem)

\* C20 witness: a draw with the owner's buffer has hit the glyph an earlier
\* draw with that buffer inserted; the buffer was reallocated in between (it
\* is larger than the key copied from it) and holds a stale byte
KeysAreCopiesSeen ==
    /\ flast.op = "draw" /\ flast.ret = "OK" /\ ~flast.set
    /\ bufs[KeyOwner] # NULL
    /\ Content(bufs[KeyOwner]) = <<66, 67>>
    /\ bufs[KeyOwner].size = 3
    /\ bufs[KeyOwner].buf[3] = 65
    /\ \E e \in mem.glyphs :
          /\ e.glyph = flast.glyph
          /\ e.key = [buf |-> <<66, 67>>, size |-> 2, len |-> 2]
          /\ mem.gheap[e.glyph].ch = e.key
          /\ mem.gheap[e.glyph].ref = 1

====
